---- MODULE Spec2Model ----
(***************************************************************************)
(* Study-assistant tasks API (src/main.py): tasks with a due time, a lazy  *)
(* expiry sweep run by every listing, and verification attempts that       *)
(* approve a task.  Every request runs in its own handler with its own     *)
(* sqlite3 connection; the handlers' statements interleave, a write        *)
(* transaction is private to its connection until it commits.              *)
(***************************************************************************)
EXTENDS Integers, Sequences, FiniteSets, TLC

\* ------------------------------------------------------------------ bounds
NumProcs == 2          \* concurrent request handlers
MaxTasks == 2          \* rows of table tasks
MaxAttempts == 2       \* rows of table verification_attempts
MaxTime == 1           \* last instant of the clock, in half seconds

Procs == 1..NumProcs
TaskIds == 1..MaxTasks
Times == 0..MaxTime

\* ------------------------------------------------------------ TaskState
PENDING == "PENDING"
APPROVED == "APPROVED"
EXPIRED == "EXPIRED"
TaskState == {PENDING, APPROVED, EXPIRED}

\* ------------------------------------------------- strings and timestamps
\* A string is a sequence of one-character strings.
IsSpace(c) == c \in {" ", "\t"}

RECURSIVE lstrip(_)
lstrip(s) == IF s # <<>> /\ IsSpace(Head(s)) THEN lstrip(Tail(s)) ELSE s

RECURSIVE rstrip(_)
rstrip(s) ==
    IF s # <<>> /\ IsSpace(s[Len(s)]) THEN rstrip(SubSeq(s, 1, Len(s) - 1)) ELSE s

\* str.strip()
strip(s) == rstrip(lstrip(s))

\* An instant is a number of half seconds.  A datetime is its wall-clock
\* reading together with its tzinfo: none (naive), UTC, or an offset east of
\* UTC (two half seconds here).
tzinfos == {"None", "UTC", "East"}
utcoffset(tz) == IF tz = "East" THEN 2 ELSE 0
DateTimes == [wall : 0..(MaxTime + 2), tzinfo : tzinfos]

\* ensure_utc: a naive datetime is taken as UTC, an aware one is converted.
ensure_utc(dt) ==
    IF dt.tzinfo = "None" THEN dt.wall ELSE dt.wall - utcoffset(dt.tzinfo)

Digit(n) == <<"0", "1", "2", "3", "4", "5", "6", "7", "8", "9">>[n + 1]

\* Mutant: the timestamp is written with the "Z" suffix of the responses.
isoformat_Z(t) ==
    <<Digit((t \div 2) \div 10), Digit((t \div 2) % 10)>>
        \o (IF t % 2 = 0 THEN <<>> ELSE <<".", "5", "0", "0", "0", "0", "0">>)
        \o <<"Z">>

\* datetime.isoformat() of a UTC instant, from the seconds on: "SS+00:00"
\* when the microseconds are zero, "SS.ffffff+00:00" otherwise.
isoformat(t) ==
    <<Digit((t \div 2) \div 10), Digit((t \div 2) % 10)>>
        \o (IF t % 2 = 0 THEN <<>> ELSE <<".", "5", "0", "0", "0", "0", "0">>)
        \o <<"+", "0", "0", ":", "0", "0">>

\* Code points of the characters of a timestamp.
Ord(c) ==
    CASE c = "+" -> 43
      [] c = "." -> 46
      [] c = "0" -> 48
      [] c = "1" -> 49
      [] c = "2" -> 50
      [] c = "3" -> 51
      [] c = "4" -> 52
      [] c = "5" -> 53
      [] c = "6" -> 54
      [] c = "7" -> 55
      [] c = "8" -> 56
      [] c = "9" -> 57
      [] c = ":" -> 58
      [] c = "Z" -> 90

\* SQLite's comparison of two TEXT values (BINARY collation): a < b.
RECURSIVE TextLT(_, _)
TextLT(a, b) ==
    IF b = <<>> THEN FALSE
    ELSE IF a = <<>> THEN TRUE
    ELSE IF Head(a) # Head(b) THEN Ord(Head(a)) < Ord(Head(b))
    ELSE TextLT(Tail(a), Tail(b))

TextLE(a, b) == a = b \/ TextLT(a, b)

\* datetime.fromisoformat: the instant a stored due_at denotes.
fromisoformat(text) == CHOOSE t \in Times : isoformat(t) = text

\* ------------------------------------------------------------------ state
VARIABLES
    clock,        \* the current instant
    tasks,        \* table tasks as committed: id -> row, in insertion order
    attempts,     \* table verification_attempts as committed, in insertion order
    writer,       \* the handler whose connection holds the write lock, or 0
    wtasks,       \* table tasks as the open write transaction sees it
    wattempts,    \* table verification_attempts as that transaction sees it
    pc,           \* each handler's position
    loc,          \* each handler's request and local variables
    resp          \* each handler's response

vars == <<clock, tasks, attempts, writer, wtasks, wattempts, pc, loc, resp>>
db == <<tasks, attempts>>
txn == <<writer, wtasks, wattempts>>

NoLoc ==
    [op |-> "none", title |-> <<>>, verify_method |-> <<>>, due_at_iso |-> 0,
     task_id |-> 0, proof_url |-> <<>>, verdict |-> FALSE, state |-> "None",
     now |-> 0, task |-> "None", new_state |-> "None",
     q |-> <<>>, due_before |-> <<>>, due_after |-> <<>>]

NoResp == [status |-> "none", id |-> 0, state |-> "None", items |-> <<>>]

ValidationError == "ValidationError"
NotFound == "NotFound"
OperationalError == "OperationalError"
Ok == "Ok"

Init ==
    /\ clock = 0
    /\ tasks = <<>>
    /\ attempts = <<>>
    /\ writer = 0
    /\ wtasks = <<>>
    /\ wattempts = <<>>
    /\ pc = [p \in Procs |-> "idle"]
    /\ loc = [p \in Procs |-> NoLoc]
    /\ resp = [p \in Procs |-> NoResp]

\* --------------------------------------------------------- the connection
\* The first INSERT or UPDATE of a connection opens a transaction and takes
\* the database's write lock; the transaction starts from the committed rows.
CanWrite(p) == writer \in {0, p}
TxTasks(p) == IF writer = p THEN wtasks ELSE tasks
TxAttempts(p) == IF writer = p THEN wattempts ELSE attempts

\* conn.commit(): the transaction's rows become the committed rows.
Commit(p) ==
    /\ tasks' = TxTasks(p)
    /\ attempts' = TxAttempts(p)
    /\ writer' = 0
    /\ wtasks' = <<>>
    /\ wattempts' = <<>>

\* The handler returns or raises: the finished call (its request, the values
\* it read) and its response stay on record until the response is delivered.
Finish(p, call, r) ==
    /\ pc' = [pc EXCEPT ![p] = "done"]
    /\ loc' = [loc EXCEPT ![p] = call]
    /\ resp' = [resp EXCEPT ![p] = r]

Goto(p, label) ==
    /\ pc' = [pc EXCEPT ![p] = label]
    /\ UNCHANGED resp

\* ------------------------------------------------------------ create_task
Titles == {<<>>, <<" ">>, <<"a", " ">>}
VerifyMethods == {<<" ">>, <<"m">>}

InFlightCreate == {q \in Procs : loc[q].op = "create_task" /\ pc[q] # "done"}

\* Mutant: the title is checked without trimming.
title_not_empty_unstripped(value) == value # <<>>

\* CreateTaskRequest's validators: the value passes.
title_not_empty(value) == strip(value) # <<>>
verify_not_empty(value) == strip(value) # <<>>

\* CreateTaskRequest's validation, then the handler up to its INSERT.
create_task(p, title, verify_method, due_at_iso) ==
    /\ pc[p] = "idle"
    /\ Len(tasks) + Cardinality(InFlightCreate) < MaxTasks
    /\ ensure_utc(due_at_iso) \in Times
    /\ LET request == [NoLoc EXCEPT !.op = "create_task", !.title = title,
                          !.verify_method = verify_method,
                          !.due_at_iso = ensure_utc(due_at_iso)]
       IN  IF ~title_not_empty(title) \/ ~verify_not_empty(verify_method)
           THEN Finish(p, [request EXCEPT !.due_at_iso = NoLoc.due_at_iso],
                       [NoResp EXCEPT !.status = ValidationError])
           ELSE /\ loc' = [loc EXCEPT ![p] = request]
                /\ Goto(p, "c_insert")
    /\ UNCHANGED <<clock, db, txn>>

TaskRow(title, verify_method, due_at, state, updated_at) ==
    [title |-> title, verify_method |-> verify_method, due_at |-> due_at,
     state |-> state, updated_at |-> updated_at]

\* CURRENT_TIMESTAMP: the database's clock, in whole seconds (the model's
\* instants are half seconds).
CURRENT_TIMESTAMP == clock \div 2

\* task_id = str(uuid.uuid4()): an id no row has.  The id is opaque and first
\* used by the INSERT, which puts the row at that id.
uuid4(rows) == Len(rows) + 1

\* Mutant: a task whose due_at has passed is inserted as EXPIRED.
create_task_insert_expired(p) ==
    /\ pc[p] = "c_insert"
    /\ CanWrite(p)
    /\ writer' = p
    /\ loc' = [loc EXCEPT ![p].task_id = uuid4(TxTasks(p))]
    /\ wtasks' = Append(TxTasks(p),
                     TaskRow(strip(loc[p].title), strip(loc[p].verify_method),
                             isoformat(loc[p].due_at_iso),
                             IF loc[p].due_at_iso <= clock THEN EXPIRED ELSE PENDING,
                             CURRENT_TIMESTAMP))
    /\ wattempts' = TxAttempts(p)
    /\ Goto(p, "c_commit")
    /\ UNCHANGED <<clock, db>>

\* INSERT INTO tasks
create_task_insert(p) ==
    /\ pc[p] = "c_insert"
    /\ CanWrite(p)
    /\ writer' = p
    /\ loc' = [loc EXCEPT ![p].task_id = uuid4(TxTasks(p))]
    /\ wtasks' = Append(TxTasks(p),
                     TaskRow(strip(loc[p].title), strip(loc[p].verify_method),
                             isoformat(loc[p].due_at_iso), PENDING,
                             CURRENT_TIMESTAMP))
    /\ wattempts' = TxAttempts(p)
    /\ Goto(p, "c_commit")
    /\ UNCHANGED <<clock, db>>

\* conn.commit(), conn.close(), return TaskResponse
create_task_commit(p) ==
    /\ pc[p] = "c_commit"
    /\ Commit(p)
    /\ Finish(p, loc[p], [NoResp EXCEPT !.status = Ok, !.id = loc[p].task_id,
                              !.state = PENDING])
    /\ UNCHANGED clock

\* ------------------------------------------------------------- list_tasks
StateFilters == {"None"} \cup TaskState

\* The handler's entry and the clock reading of expire_overdue_tasks.  The
\* query parameters are first read by fetch_tasks and are drawn there.
list_tasks(p) ==
    /\ pc[p] = "idle"
    /\ loc' = [loc EXCEPT ![p] = [NoLoc EXCEPT !.op = "list_tasks", !.now = clock]]
    /\ Goto(p, "l_update")
    /\ UNCHANGED <<clock, db, txn>>

\* Mutant: the sweep's WHERE clause lacks state = PENDING.
SweepRowAnyState(row, now) ==
    IF TextLE(row.due_at, isoformat(now))
    THEN [row EXCEPT !.state = EXPIRED, !.updated_at = CURRENT_TIMESTAMP]
    ELSE row

\* Mutant: the sweep's WHERE clause has due_at < now.
SweepRowStrict(row, now) ==
    IF row.state = PENDING /\ TextLT(row.due_at, isoformat(now))
    THEN [row EXCEPT !.state = EXPIRED, !.updated_at = CURRENT_TIMESTAMP]
    ELSE row

\* Mutant: the sweep also rewrites the rows that are EXPIRED already.
SweepRowAgain(row, now) ==
    IF row.state \in {PENDING, EXPIRED} /\ TextLE(row.due_at, isoformat(now))
    THEN [row EXCEPT !.state = EXPIRED, !.updated_at = CURRENT_TIMESTAMP]
    ELSE row

\* Mutant: the sweep expires every PENDING row, whatever its due_at.
SweepRowAnyDue(row, now) ==
    IF row.state = PENDING
    THEN [row EXCEPT !.state = EXPIRED, !.updated_at = CURRENT_TIMESTAMP]
    ELSE row

\* UPDATE tasks SET state = EXPIRED, updated_at = CURRENT_TIMESTAMP
\* WHERE state = PENDING AND due_at <= now
SweepRow(row, now) ==
    IF row.state = PENDING /\ TextLE(row.due_at, isoformat(now))
    THEN [row EXCEPT !.state = EXPIRED, !.updated_at = CURRENT_TIMESTAMP]
    ELSE row

expire_overdue_tasks(p) ==
    /\ pc[p] = "l_update"
    /\ CanWrite(p)
    /\ writer' = p
    /\ wtasks' = [i \in DOMAIN TxTasks(p) |-> SweepRow(TxTasks(p)[i], loc[p].now)]
    /\ wattempts' = TxAttempts(p)
    /\ Goto(p, "l_commit")
    /\ UNCHANGED <<clock, db, loc>>

\* Mutant: the sweep's transaction is closed without being committed.
expire_overdue_tasks_rollback(p) ==
    /\ pc[p] = "l_commit"
    /\ writer' = 0
    /\ wtasks' = <<>>
    /\ wattempts' = <<>>
    /\ Goto(p, "l_select")
    /\ UNCHANGED <<clock, db, loc>>

\* conn.commit() of expire_overdue_tasks
expire_overdue_tasks_commit(p) ==
    /\ pc[p] = "l_commit"
    /\ Commit(p)
    /\ Goto(p, "l_select")
    /\ UNCHANGED <<clock, loc>>

\* Mutant: the state filter is never added to the query.
MatchesAnyState(row, state) == TRUE

\* The WHERE clause of fetch_tasks.
Matches(row, state) ==
    state # "None" => row.state = state

\* An optional query parameter: absent, or one value.
None == <<>>
Some(v) == <<v>>

\* SQLite's LIKE: "%" matches any run of characters, "_" any one character,
\* any other character itself, ASCII letters without regard to case.
Lower(c) == IF c = "A" THEN "a" ELSE IF c = "B" THEN "b" ELSE c

RECURSIVE Like(_, _)
Like(pattern, text) ==
    IF pattern = <<>> THEN text = <<>>
    ELSE IF Head(pattern) = "%"
         THEN Like(Tail(pattern), text)
                  \/ (text # <<>> /\ Like(pattern, Tail(text)))
    ELSE IF text = <<>> THEN FALSE
    ELSE /\ Head(pattern) = "_" \/ Lower(Head(pattern)) = Lower(Head(text))
         /\ Like(Tail(pattern), Tail(text))

\* if q: AND title LIKE '%q%'
MatchesTitle(row, q) ==
    q # None /\ q[1] # <<>> => Like(<<"%">> \o q[1] \o <<"%">>, row.title)

\* Mutant: the bound itself is let through, due_at <= due_before.
MatchesDueBeforeInclusive(row, due_before) ==
    due_before # None => TextLE(row.due_at, isoformat(ensure_utc(due_before[1])))

\* if due_before: AND due_at < ensure_utc(due_before).isoformat()
MatchesDueBefore(row, due_before) ==
    due_before # None => TextLT(row.due_at, isoformat(ensure_utc(due_before[1])))

\* if due_after: AND due_at > ensure_utc(due_after).isoformat()
MatchesDueAfter(row, due_after) ==
    due_after # None => TextLT(isoformat(ensure_utc(due_after[1])), row.due_at)

\* The whole WHERE clause: the clauses are joined by AND.
Where(row, state, q, due_before, due_after) ==
    /\ Matches(row, state)
    /\ MatchesTitle(row, q)
    /\ MatchesDueBefore(row, due_before)
    /\ MatchesDueAfter(row, due_after)

\* Mutant: no ORDER BY, the rows come in any order.
OrderedAnyhow(rows, ids) ==
    {s \in [1..Cardinality(ids) -> ids] :
        \A i, j \in DOMAIN s : i # j => s[i] # s[j]}

\* ORDER BY due_at ASC: the rows of ids in an order sorted by due_at; rows
\* with equal due_at come in any order.
Ordered(rows, ids) ==
    {s \in [1..Cardinality(ids) -> ids] :
        /\ \A i, j \in DOMAIN s : i # j => s[i] # s[j]
        /\ \A i, j \in DOMAIN s : i < j => TextLE(rows[s[i]].due_at, rows[s[j]].due_at)}

TaskResponse(id, row) ==
    [id |-> id, title |-> row.title, due_at |-> row.due_at, state |-> row.state]

fetch_tasks(rows, state, q, due_before, due_after) ==
    {[i \in DOMAIN s |-> TaskResponse(s[i], rows[s[i]])] :
        s \in Ordered(rows, {id \in DOMAIN rows :
                                Where(rows[id], state, q, due_before, due_after)})}

\* Values of the query parameters q, due_before and due_after.
TitleQueries == {None, Some(<<>>), Some(<<"A">>), Some(<<"b">>)}
DueBounds ==
    {None, Some([wall |-> utcoffset("East"), tzinfo |-> "East"]),
           Some([wall |-> MaxTime, tzinfo |-> "None"]),
           Some([wall |-> MaxTime + 1, tzinfo |-> "None"])}

\* SELECT ... ORDER BY due_at ASC, conn.close(), return TaskListResponse
list_tasks_select(p, state, q, due_before, due_after) ==
    /\ pc[p] = "l_select"
    /\ \E items \in fetch_tasks(tasks, state, q, due_before, due_after) :
          Finish(p, [loc[p] EXCEPT !.state = state, !.q = q,
                                   !.due_before = due_before,
                                   !.due_after = due_after],
                 [NoResp EXCEPT !.status = Ok, !.items = items])
    /\ UNCHANGED <<clock, db, txn>>

\* ------------------------------------------------------------ verify_task
ProofUrls == {<<>>, <<" ">>, <<"u", " ">>}

InFlightVerify == {q \in Procs : loc[q].op = "verify_task" /\ pc[q] # "done"}

\* VerificationAttemptRequest's validator: the value passes.
proof_url_not_empty(value) == strip(value) # <<>>

\* VerificationAttemptRequest's validation on the handler's entry.
verify_task(p, task_id, proof_url, verdict) ==
    /\ pc[p] = "idle"
    /\ Len(attempts) + Cardinality(InFlightVerify) < MaxAttempts
    /\ LET request == [NoLoc EXCEPT !.op = "verify_task", !.task_id = task_id,
                          !.proof_url = proof_url, !.verdict = verdict]
       IN  IF ~proof_url_not_empty(proof_url)
           THEN Finish(p, request, [NoResp EXCEPT !.status = ValidationError])
           ELSE /\ loc' = [loc EXCEPT ![p] = request]
                /\ Goto(p, "v_select")
    /\ UNCHANGED <<clock, db, txn>>

\* Mutant: the handler goes on to its INSERT without the existence check.
verify_task_select_unchecked(p) ==
    /\ pc[p] = "v_select"
    /\ loc' = [loc EXCEPT ![p].task =
                   IF loc[p].task_id \in DOMAIN tasks
                   THEN tasks[loc[p].task_id].state ELSE "None"]
    /\ Goto(p, "v_insert")
    /\ UNCHANGED <<clock, db, txn>>

\* SELECT id, state FROM tasks WHERE id = ?
verify_task_select(p) ==
    /\ pc[p] = "v_select"
    /\ IF loc[p].task_id \in DOMAIN tasks
       THEN /\ loc' = [loc EXCEPT ![p].task = tasks[loc[p].task_id].state]
            /\ Goto(p, "v_insert")
       ELSE Finish(p, loc[p], [NoResp EXCEPT !.status = NotFound])
    /\ UNCHANGED <<clock, db, txn>>

\* Mutant: the verdict is not stored, every attempt is recorded as failed.
AttemptRowFailed(task_id, proof_url, verdict) ==
    [task_id |-> task_id, proof_url |-> proof_url, verdict |-> FALSE]

AttemptRow(task_id, proof_url, verdict) ==
    [task_id |-> task_id, proof_url |-> proof_url, verdict |-> verdict]

\* Mutant: only an attempt with a true verdict is recorded.
verify_task_insert_if_approved(p) ==
    /\ pc[p] = "v_insert"
    /\ CanWrite(p)
    /\ writer' = p
    /\ wtasks' = TxTasks(p)
    /\ wattempts' = IF loc[p].verdict
                    THEN Append(TxAttempts(p),
                                AttemptRow(loc[p].task_id, strip(loc[p].proof_url),
                                           loc[p].verdict))
                    ELSE TxAttempts(p)
    /\ Goto(p, "v_update")
    /\ UNCHANGED <<clock, db, loc>>

\* Mutant: the INSERT is committed on its own, before the UPDATE.
verify_task_insert_autocommit(p) ==
    /\ pc[p] = "v_insert"
    /\ CanWrite(p)
    /\ attempts' = Append(TxAttempts(p),
                       AttemptRow(loc[p].task_id, strip(loc[p].proof_url),
                                  loc[p].verdict))
    /\ Goto(p, "v_update")
    /\ UNCHANGED <<clock, tasks, txn, loc>>

\* INSERT INTO verification_attempts
verify_task_insert(p) ==
    /\ pc[p] = "v_insert"
    /\ CanWrite(p)
    /\ writer' = p
    /\ wtasks' = TxTasks(p)
    /\ wattempts' = Append(TxAttempts(p),
                        AttemptRow(loc[p].task_id, strip(loc[p].proof_url),
                                   loc[p].verdict))
    /\ Goto(p, "v_update")
    /\ UNCHANGED <<clock, db, loc>>

\* UPDATE tasks SET state = APPROVED WHERE id = ?
ApproveRow(rows, task_id) ==
    [i \in DOMAIN rows |->
        IF i = task_id
        THEN [rows[i] EXCEPT !.state = APPROVED, !.updated_at = CURRENT_TIMESTAMP]
        ELSE rows[i]]

\* Mutant: only a task read as PENDING is approved.
verify_task_update_if_pending(p) ==
    /\ pc[p] = "v_update"
    /\ CanWrite(p)
    /\ writer' = p
    /\ IF loc[p].verdict /\ loc[p].task = PENDING
       THEN /\ wtasks' = ApproveRow(TxTasks(p), loc[p].task_id)
            /\ loc' = [loc EXCEPT ![p].new_state = APPROVED]
       ELSE /\ wtasks' = TxTasks(p)
            /\ loc' = [loc EXCEPT ![p].new_state = loc[p].task]
    /\ wattempts' = TxAttempts(p)
    /\ Goto(p, "v_commit")
    /\ UNCHANGED <<clock, db>>

\* Mutant: the UPDATE runs whatever the verdict.
verify_task_update_any_verdict(p) ==
    /\ pc[p] = "v_update"
    /\ CanWrite(p)
    /\ writer' = p
    /\ wtasks' = ApproveRow(TxTasks(p), loc[p].task_id)
    /\ loc' = [loc EXCEPT ![p].new_state =
                   IF loc[p].verdict THEN APPROVED ELSE loc[p].task]
    /\ wattempts' = TxAttempts(p)
    /\ Goto(p, "v_commit")
    /\ UNCHANGED <<clock, db>>

\* new_state = task["state"]; if payload.verdict: UPDATE, new_state = APPROVED
verify_task_update(p) ==
    /\ pc[p] = "v_update"
    /\ CanWrite(p)
    /\ writer' = p
    /\ IF loc[p].verdict
       THEN /\ wtasks' = ApproveRow(TxTasks(p), loc[p].task_id)
            /\ loc' = [loc EXCEPT ![p].new_state = APPROVED]
       ELSE /\ wtasks' = TxTasks(p)
            /\ loc' = [loc EXCEPT ![p].new_state = loc[p].task]
    /\ wattempts' = TxAttempts(p)
    /\ Goto(p, "v_commit")
    /\ UNCHANGED <<clock, db>>

\* conn.commit(), conn.close(), return VerifyAttemptResponse
verify_task_commit(p) ==
    /\ pc[p] = "v_commit"
    /\ Commit(p)
    /\ Finish(p, loc[p], [NoResp EXCEPT !.status = Ok, !.id = loc[p].task_id,
                              !.state = loc[p].new_state])
    /\ UNCHANGED clock

\* ------------------------------------------------------------- environment
\* A statement that needs the write lock while another connection holds it
\* waits, and raises "database is locked" when the wait times out.
Busy(p) ==
    /\ pc[p] \in {"c_insert", "l_update", "v_insert"}
    /\ ~CanWrite(p)
    /\ Finish(p, loc[p], [NoResp EXCEPT !.status = OperationalError])
    /\ UNCHANGED <<clock, db, txn>>

\* The response has been delivered; the handler serves the next request.
Return(p) ==
    /\ pc[p] = "done"
    /\ pc' = [pc EXCEPT ![p] = "idle"]
    /\ loc' = [loc EXCEPT ![p] = NoLoc]
    /\ resp' = [resp EXCEPT ![p] = NoResp]
    /\ UNCHANGED <<clock, db, txn>>

Tick ==
    /\ clock < MaxTime
    /\ clock' = clock + 1
    /\ UNCHANGED <<db, txn, pc, loc, resp>>

Next ==
    \/ \E p \in Procs, title \in Titles, vm \in VerifyMethods, d \in DateTimes :
            create_task(p, title, vm, d)
    \/ \E p \in Procs : create_task_insert(p)
    \/ \E p \in Procs : create_task_commit(p)
    \/ \E p \in Procs : list_tasks(p)
    \/ \E p \in Procs : expire_overdue_tasks(p)
    \/ \E p \in Procs : expire_overdue_tasks_commit(p)
    \/ \E p \in Procs, state \in StateFilters :
            list_tasks_select(p, state, None, None, None)
    \/ \E p \in Procs, id \in TaskIds, url \in ProofUrls, verdict \in BOOLEAN :
            verify_task(p, id, url, verdict)
    \/ \E p \in Procs : verify_task_select(p)
    \/ \E p \in Procs : verify_task_insert(p)
    \/ \E p \in Procs : verify_task_update(p)
    \/ \E p \in Procs : verify_task_commit(p)
    \/ \E p \in Procs : Busy(p)
    \/ \E p \in Procs : Return(p)
    \/ Tick

Spec == Init /\ [][Next]_vars

\* One request at a time: a request is accepted only when every other
\* handler is idle.
Quiet(p) == \A q \in Procs \ {p} : pc[q] = "idle"

NextSeq ==
    \/ \E p \in Procs, title \in Titles, vm \in VerifyMethods, d \in DateTimes :
            Quiet(p) /\ create_task(p, title, vm, d)
    \/ \E p \in Procs : create_task_insert(p)
    \/ \E p \in Procs : create_task_commit(p)
    \/ \E p \in Procs : Quiet(p) /\ list_tasks(p)
    \/ \E p \in Procs : expire_overdue_tasks(p)
    \/ \E p \in Procs : expire_overdue_tasks_commit(p)
    \/ \E p \in Procs, state \in StateFilters :
            list_tasks_select(p, state, None, None, None)
    \/ \E p \in Procs, id \in TaskIds, url \in ProofUrls, verdict \in BOOLEAN :
            Quiet(p) /\ verify_task(p, id, url, verdict)
    \/ \E p \in Procs : verify_task_select(p)
    \/ \E p \in Procs : verify_task_insert(p)
    \/ \E p \in Procs : verify_task_update(p)
    \/ \E p \in Procs : verify_task_commit(p)
    \/ \E p \in Procs : Return(p)
    \/ Tick

SpecSeq == Init /\ [][NextSeq]_vars

\* One request at a time, the listings with every query parameter.
NextQuery ==
    \/ \E p \in Procs, title \in Titles, vm \in VerifyMethods, d \in DateTimes :
            Quiet(p) /\ create_task(p, title, vm, d)
    \/ \E p \in Procs : create_task_insert(p)
    \/ \E p \in Procs : create_task_commit(p)
    \/ \E p \in Procs : Quiet(p) /\ list_tasks(p)
    \/ \E p \in Procs : expire_overdue_tasks(p)
    \/ \E p \in Procs : expire_overdue_tasks_commit(p)
    \/ \E p \in Procs, state \in StateFilters, q \in TitleQueries,
          due_before \in DueBounds, due_after \in DueBounds :
            list_tasks_select(p, state, q, due_before, due_after)
    \/ \E p \in Procs, id \in TaskIds, url \in ProofUrls, verdict \in BOOLEAN :
            Quiet(p) /\ verify_task(p, id, url, verdict)
    \/ \E p \in Procs : verify_task_select(p)
    \/ \E p \in Procs : verify_task_insert(p)
    \/ \E p \in Procs : verify_task_update(p)
    \/ \E p \in Procs : verify_task_commit(p)
    \/ \E p \in Procs : Return(p)
    \/ Tick

SpecQuery == Init /\ [][NextQuery]_vars

\* One request at a time, with a clock that runs on past the last due time,
\* into the next whole second.
MaxClock == MaxTime + 2

TickOn ==
    /\ clock < MaxClock
    /\ clock' = clock + 1
    /\ UNCHANGED <<db, txn, pc, loc, resp>>

NextClock ==
    \/ \E p \in Procs, title \in Titles, vm \in VerifyMethods, d \in DateTimes :
            Quiet(p) /\ create_task(p, title, vm, d)
    \/ \E p \in Procs : create_task_insert(p)
    \/ \E p \in Procs : create_task_commit(p)
    \/ \E p \in Procs : Quiet(p) /\ list_tasks(p)
    \/ \E p \in Procs : expire_overdue_tasks(p)
    \/ \E p \in Procs : expire_overdue_tasks_commit(p)
    \/ \E p \in Procs, state \in StateFilters :
            list_tasks_select(p, state, None, None, None)
    \/ \E p \in Procs, id \in TaskIds, url \in ProofUrls, verdict \in BOOLEAN :
            Quiet(p) /\ verify_task(p, id, url, verdict)
    \/ \E p \in Procs : verify_task_select(p)
    \/ \E p \in Procs : verify_task_insert(p)
    \/ \E p \in Procs : verify_task_update(p)
    \/ \E p \in Procs : verify_task_commit(p)
    \/ \E p \in Procs : Return(p)
    \/ TickOn

SpecClock == Init /\ [][NextClock]_vars

\* ----------------------------------------------------------------- claims
\* Handler p takes the step from one position to another.
Stepped(p, from, to) == pc[p] = from /\ pc'[p] = to

Items(p) == resp[p].items
Listed(p) == pc[p] = "done" /\ loc[p].op = "list_tasks" /\ resp[p].status = Ok
Verified(p) == pc[p] = "done" /\ loc[p].op = "verify_task" /\ resp[p].status = Ok

\* C1: once a task's committed state is APPROVED it is APPROVED in every
\* later state; no step (a listing's sweep after due_at included) changes it.
C1_ApprovedIsTerminal ==
    [][\A id \in DOMAIN tasks :
          tasks[id].state = APPROVED =>
              id \in DOMAIN tasks' /\ tasks'[id].state = APPROVED]_vars

\* A listing whose sweep ran at or after an APPROVED task's due_at has
\* returned that task, still APPROVED.
C1_Witness ==
    \E p \in Procs :
        /\ Listed(p)
        /\ \E i \in DOMAIN Items(p) :
              /\ Items(p)[i].state = APPROVED
              /\ fromisoformat(Items(p)[i].due_at) <= loc[p].now
              /\ tasks[Items(p)[i].id].state = APPROVED

\* C2: when a verify_task call with verdict = true commits, the task's
\* committed state is APPROVED and the call returns APPROVED, whatever state
\* the call had read.
C2_TrueVerdictApproves ==
    [][\A p \in Procs :
          Stepped(p, "v_commit", "done") /\ loc[p].verdict =>
              /\ tasks'[loc[p].task_id].state = APPROVED
              /\ resp'[p].status = Ok
              /\ resp'[p].state = APPROVED]_vars

\* An approving call on a task it had read as EXPIRED has returned APPROVED.
C2_Witness ==
    \E p \in Procs :
        /\ Verified(p)
        /\ loc[p].verdict
        /\ loc[p].task = EXPIRED
        /\ resp[p].state = APPROVED
        /\ tasks[loc[p].task_id].state = APPROVED

\* C3: no step of a verify_task call with verdict = false changes a committed
\* task row; its commit appends one attempt row and changes nothing else.
C3_FalseVerdictWritesNoTask ==
    [][\A p \in Procs :
          pc[p] # "done" /\ pc'[p] # pc[p] /\ loc'[p].op = "verify_task"
              /\ ~loc'[p].verdict =>
              /\ tasks' = tasks
              /\ IF Stepped(p, "v_commit", "done")
                 THEN attempts' = Append(attempts,
                          AttemptRow(loc[p].task_id, strip(loc[p].proof_url), FALSE))
                 ELSE attempts' = attempts]_vars

\* A rejected attempt has been committed on a PENDING task whose due_at has
\* passed, and the task is still PENDING.
C3_Witness ==
    \E p \in Procs :
        /\ Verified(p)
        /\ ~loc[p].verdict
        /\ loc[p].task = PENDING
        /\ tasks[loc[p].task_id].state = PENDING
        /\ fromisoformat(tasks[loc[p].task_id].due_at) <= clock
        /\ \E i \in DOMAIN attempts :
              attempts[i].task_id = loc[p].task_id /\ ~attempts[i].verdict

\* C4: with one request at a time, a listing's sweep commits every task that
\* is PENDING with due_at at or before its now as EXPIRED, and the listing
\* returns every such task that matches the filter, with state EXPIRED.
C4_ListingExpiresOverdue ==
    [][\A p \in Procs :
          /\ Stepped(p, "l_commit", "l_select") =>
                \A id \in DOMAIN tasks :
                    tasks[id].state = PENDING
                        /\ fromisoformat(tasks[id].due_at) <= loc[p].now =>
                        tasks'[id].state = EXPIRED
          /\ Stepped(p, "l_select", "done") =>
                \A id \in DOMAIN tasks :
                    tasks[id].state # APPROVED
                        /\ fromisoformat(tasks[id].due_at) <= loc[p].now =>
                        /\ tasks'[id].state = EXPIRED
                        /\ Matches(tasks[id], loc'[p].state) =>
                              \E i \in DOMAIN resp'[p].items :
                                  /\ resp'[p].items[i].id = id
                                  /\ resp'[p].items[i].state = EXPIRED]_vars

\* Task A due in the future and task B due in the past: an unfiltered listing
\* has returned both, B EXPIRED and A PENDING.
C4_Witness ==
    \E p \in Procs :
        /\ Listed(p)
        /\ loc[p].state = "None"
        /\ Len(Items(p)) = 2
        /\ \E i, j \in DOMAIN Items(p) :
              /\ Items(p)[i].state = EXPIRED
              /\ fromisoformat(Items(p)[i].due_at) <= loc[p].now
              /\ Items(p)[j].state = PENDING
              /\ fromisoformat(Items(p)[j].due_at) > loc[p].now

\* C5: a committed state becomes EXPIRED only by the commit of a listing's
\* sweep, only from PENDING and only with due_at at or before the instant
\* that sweep read; a new row is never EXPIRED.
C5_ExpiredOnlyBySweep ==
    [][\A id \in DOMAIN tasks' :
          tasks'[id].state = EXPIRED
              /\ (id \in DOMAIN tasks => tasks[id].state # EXPIRED) =>
              /\ id \in DOMAIN tasks
              /\ tasks[id].state = PENDING
              /\ \E p \in Procs :
                    /\ Stepped(p, "l_commit", "l_select")
                    /\ fromisoformat(tasks[id].due_at) <= loc[p].now]_vars

\* A sweep has just committed: one task is EXPIRED, another, due later than
\* the sweep's now, is still PENDING.
C5_Witness ==
    \E p \in Procs :
        /\ pc[p] = "l_select"
        /\ \E id, other \in DOMAIN tasks :
              /\ tasks[id].state = EXPIRED
              /\ tasks[other].state = PENDING
              /\ fromisoformat(tasks[other].due_at) > loc[p].now

\* C6: in every committed state, a task with an attempt row of verdict = true
\* is APPROVED.
C6_ApprovingAttemptMeansApproved ==
    \A i \in DOMAIN attempts :
        attempts[i].verdict =>
            /\ attempts[i].task_id \in DOMAIN tasks
            /\ tasks[attempts[i].task_id].state = APPROVED

\* An approving call has committed while another handler's listing is
\* between its sweep and its select.
C6_Witness ==
    \E p, q \in Procs :
        /\ Verified(p)
        /\ loc[p].verdict
        /\ pc[q] = "l_select"
        /\ \E i \in DOMAIN attempts :
              attempts[i].task_id = loc[p].task_id /\ attempts[i].verdict

\* C7: a verify_task call whose proof_url is empty after trimming fails with
\* a validation error, one whose task_id names no task fails with not-found,
\* and no step of the call up to the failure writes anything.
C7_FailedVerifyWritesNothing ==
    [][\A p \in Procs :
          /\ pc[p] = "idle" /\ loc'[p].op = "verify_task" =>
                /\ UNCHANGED <<db, txn>>
                /\ strip(loc'[p].proof_url) = <<>> =>
                      pc'[p] = "done" /\ resp'[p].status = ValidationError
          /\ pc[p] = "v_select" /\ pc'[p] # "v_select" =>
                /\ UNCHANGED <<db, txn>>
                /\ loc[p].task_id \notin DOMAIN tasks =>
                      pc'[p] = "done" /\ resp'[p].status = NotFound]_vars

\* One call has failed with not-found although a task exists, another with a
\* validation error; no attempt row exists.
C7_Witness ==
    \E p, q \in Procs :
        /\ pc[p] = "done" /\ loc[p].op = "verify_task"
        /\ resp[p].status = NotFound
        /\ Len(tasks) > 0
        /\ pc[q] = "done" /\ loc[q].op = "verify_task"
        /\ resp[q].status = ValidationError
        /\ attempts = <<>>

\* C8: a create_task call whose title or verify_method is empty after
\* trimming fails with a validation error and writes nothing.
C8_InvalidCreateWritesNothing ==
    [][\A p \in Procs :
          pc[p] = "idle" /\ loc'[p].op = "create_task"
              /\ (strip(loc'[p].title) = <<>>
                    \/ strip(loc'[p].verify_method) = <<>>) =>
              /\ pc'[p] = "done"
              /\ resp'[p].status = ValidationError
              /\ UNCHANGED <<db, txn>>]_vars

\* A call with a title of whitespace only has failed with a validation
\* error, and so has one with a valid title and a blank verify_method.
C8_Witness ==
    \E p, q \in Procs :
        /\ pc[p] = "done" /\ loc[p].op = "create_task"
        /\ resp[p].status = ValidationError
        /\ loc[p].title # <<>> /\ strip(loc[p].title) = <<>>
        /\ pc[q] = "done" /\ loc[q].op = "create_task"
        /\ resp[q].status = ValidationError
        /\ strip(loc[q].title) # <<>> /\ strip(loc[q].verify_method) = <<>>

\* C9: the state a successful verify_task call returns is the task's
\* committed state at the moment the call commits.
C9_ReturnedStateIsCommittedState ==
    [][\A p \in Procs :
          Stepped(p, "v_commit", "done") =>
              resp'[p].state = tasks'[loc[p].task_id].state]_vars

\* C10: a listing with the state filter S returns exactly the tasks whose
\* committed state is S when it selects, after its sweep: each once, each
\* with state S.
C10_StateFilterIsExact ==
    [][\A p \in Procs :
          Stepped(p, "l_select", "done") /\ loc'[p].state \in TaskState =>
              LET items == resp'[p].items
                  expected == {id \in DOMAIN tasks :
                                  tasks[id].state = loc'[p].state}
              IN  /\ {items[i].id : i \in DOMAIN items} = expected
                  /\ Len(items) = Cardinality(expected)
                  /\ \A i \in DOMAIN items :
                        items[i].state = loc'[p].state]_vars

\* A listing filtered on EXPIRED has returned the one EXPIRED task of two.
C10_Witness ==
    \E p \in Procs :
        /\ Listed(p)
        /\ loc[p].state = EXPIRED
        /\ Len(Items(p)) = 1
        /\ Len(tasks) = 2
        /\ \E id \in DOMAIN tasks : tasks[id].state # EXPIRED

\* C11: the items of every listing, whatever its filters and whatever the
\* order the tasks were created in, are in ascending order of due_at: an
\* item is never due later than the one after it.
C11_ListingSortedByDueAt ==
    [][\A p \in Procs :
          Stepped(p, "l_select", "done") =>
              LET items == resp'[p].items
              IN  \A i \in DOMAIN items :
                      i + 1 \in DOMAIN items =>
                          fromisoformat(items[i].due_at)
                              <= fromisoformat(items[i + 1].due_at)]_vars

\* A listing has returned two tasks of different due_at, the one created
\* second first.
C11_Witness ==
    \E p \in Procs :
        /\ Listed(p)
        /\ Len(Items(p)) = 2
        /\ Items(p)[1].id > Items(p)[2].id
        /\ fromisoformat(Items(p)[1].due_at) < fromisoformat(Items(p)[2].due_at)

\* C12: a task is PENDING when its creation commits and is returned PENDING
\* by create_task; while the time is before its due_at a PENDING task stays
\* PENDING at every step other than the commit of a verify_task with a true
\* verdict for it, and a listing whose filter it matches returns it PENDING.
C12_FutureTaskStaysPending ==
    [][/\ \A p \in Procs :
             Stepped(p, "c_commit", "done") =>
                 /\ resp'[p].state = PENDING
                 /\ tasks'[resp'[p].id].state = PENDING
       /\ \A id \in DOMAIN tasks :
             tasks[id].state = PENDING
                 /\ clock' < fromisoformat(tasks[id].due_at) =>
                 \/ tasks'[id].state = PENDING
                 \/ \E p \in Procs :
                       /\ Stepped(p, "v_commit", "done")
                       /\ loc[p].task_id = id /\ loc[p].verdict
       /\ \A p \in Procs :
             Stepped(p, "l_select", "done") =>
                 \A id \in DOMAIN tasks :
                     tasks[id].state = PENDING
                         /\ clock < fromisoformat(tasks[id].due_at)
                         /\ Matches(tasks[id], loc'[p].state) =>
                         \E i \in DOMAIN resp'[p].items :
                             /\ resp'[p].items[i].id = id
                             /\ resp'[p].items[i].state = PENDING]_vars

\* Before the due_at of a task, a listing has swept another task to EXPIRED
\* and returned this one PENDING, and it is PENDING still.
C12_Witness ==
    \E p \in Procs :
        /\ Listed(p)
        /\ \E i, j \in DOMAIN Items(p) :
              /\ Items(p)[i].state = PENDING
              /\ clock < fromisoformat(Items(p)[i].due_at)
              /\ tasks[Items(p)[i].id].state = PENDING
              /\ Items(p)[j].state = EXPIRED

\* C13: no listing returns, as PENDING, a task whose due_at is at or before
\* the instant its sweep took as now.
C13_NoOverduePendingListed ==
    [][\A p \in Procs :
          Stepped(p, "l_select", "done") =>
              \A i \in DOMAIN resp'[p].items :
                  ~ /\ resp'[p].items[i].state = PENDING
                    /\ fromisoformat(resp'[p].items[i].due_at) <= loc[p].now]_vars

\* Part occurs in text as a run of consecutive characters, ASCII letters
\* compared without regard to case.
Contains(text, part) ==
    \E k \in 0..(Len(text) - Len(part)) :
        \A i \in 1..Len(part) : Lower(text[k + i]) = Lower(part[i])

\* The criteria of a listing's query parameters, on instants of time.
StateCriterion(row, state) == state = "None" \/ row.state = state
TitleCriterion(row, q) == q = None \/ q[1] = <<>> \/ Contains(row.title, q[1])
DueBeforeCriterion(row, due_before) ==
    due_before = None \/ fromisoformat(row.due_at) < ensure_utc(due_before[1])
DueAfterCriterion(row, due_after) ==
    due_after = None \/ fromisoformat(row.due_at) > ensure_utc(due_after[1])

C15_SweepIgnoresFilters ==
    [][\A p \in Procs :
          /\ Stepped(p, "l_commit", "l_select") =>
                /\ DOMAIN tasks' = DOMAIN tasks
                /\ \A id \in DOMAIN tasks :
                      tasks'[id].state =
                          IF tasks[id].state = PENDING
                                 /\ fromisoformat(tasks[id].due_at) <= loc[p].now
                          THEN EXPIRED
                          ELSE tasks[id].state
                /\ attempts' = attempts
          /\ Stepped(p, "l_select", "done") =>
                /\ db' = db
                /\ \A id \in DOMAIN tasks :
                      fromisoformat(tasks[id].due_at) <= loc[p].now =>
                          tasks'[id].state # PENDING]_vars

\* A listing filtered on a title that no task has returned nothing, and the
\* two tasks, due at or before its now, are EXPIRED.
C15_Witness ==
    \E p \in Procs :
        /\ Listed(p)
        /\ loc[p].q = Some(<<"b">>)
        /\ Items(p) = <<>>
        /\ Len(tasks) = 2
        /\ \A id \in DOMAIN tasks :
              /\ tasks[id].state = EXPIRED
              /\ fromisoformat(tasks[id].due_at) <= loc[p].now

\* C16: the commit of a listing's sweep leaves every row that is not PENDING
\* with due_at at or before its now as it was, updated_at included (so the
\* sweep of a store without such a row, a second sweep right after a first,
\* and a sweep over an EXPIRED row change nothing), and the select changes
\* no row.
C16_SweepIsIdempotent ==
    [][\A p \in Procs :
          /\ Stepped(p, "l_commit", "l_select") =>
                /\ DOMAIN tasks' = DOMAIN tasks
                /\ \A id \in DOMAIN tasks :
                      ~ (tasks[id].state = PENDING
                             /\ fromisoformat(tasks[id].due_at) <= loc[p].now) =>
                          tasks'[id] = tasks[id]
                /\ attempts' = attempts
          /\ Stepped(p, "l_select", "done") => db' = db]_vars

\* A listing whose sweep ran in a later second than the one an EXPIRED task
\* was last updated in has left that task's updated_at as it was.
C16_Witness ==
    \E p \in Procs :
        /\ Listed(p)
        /\ \E id \in DOMAIN tasks :
              /\ tasks[id].state = EXPIRED
              /\ tasks[id].updated_at < loc[p].now \div 2

\* C17: the committed attempts only grow, at the end and by the commit of a
\* verify_task call, which adds one row with the call's task_id and verdict,
\* true or false; no other step, of create_task or list_tasks or anything
\* else, changes the attempts.
C17_AttemptsAppendOnly ==
    [][/\ Len(attempts') >= Len(attempts)
       /\ SubSeq(attempts', 1, Len(attempts)) = attempts
       /\ \A p \in Procs :
             Stepped(p, "v_commit", "done") =>
                 /\ Len(attempts') = Len(attempts) + 1
                 /\ attempts'[Len(attempts')].task_id = loc[p].task_id
                 /\ attempts'[Len(attempts')].verdict = loc[p].verdict
       /\ attempts' # attempts =>
             \E p \in Procs : Stepped(p, "v_commit", "done")]_vars

\* Two verify_task calls for one task, one with a false and one with a true
\* verdict, have left two attempts for it.
C17_Witness ==
    /\ Len(attempts) = 2
    /\ attempts[1].task_id = attempts[2].task_id
    /\ attempts[1].verdict # attempts[2].verdict
    /\ \E p \in Procs : Verified(p)

\* C18: the commit of a create_task call adds one task, under an id no task
\* had, PENDING in the store and in the response also when its due_at has
\* passed, and leaves every other task and every attempt as it was; no step
\* removes a task or takes one from APPROVED or EXPIRED to PENDING.
C18_CreateAddsOnePendingTask ==
    [][/\ \A p \in Procs :
             Stepped(p, "c_commit", "done") =>
                 /\ resp'[p].id \notin DOMAIN tasks
                 /\ DOMAIN tasks' = DOMAIN tasks \cup {resp'[p].id}
                 /\ Len(tasks') = Len(tasks) + 1
                 /\ \A id \in DOMAIN tasks : tasks'[id] = tasks[id]
                 /\ tasks'[resp'[p].id].state = PENDING
                 /\ resp'[p].state = PENDING
                 /\ attempts' = attempts
       /\ \A id \in DOMAIN tasks :
             /\ id \in DOMAIN tasks'
             /\ tasks[id].state \in {APPROVED, EXPIRED} =>
                   tasks'[id].state # PENDING]_vars

\* A create_task call whose due_at had passed has added a second task,
\* PENDING, to a store with an EXPIRED task and an attempt.
C18_Witness ==
    \E p \in Procs :
        /\ pc[p] = "done" /\ loc[p].op = "create_task" /\ resp[p].status = Ok
        /\ resp[p].id = 2
        /\ loc[p].due_at_iso <= clock
        /\ tasks[2].state = PENDING
        /\ tasks[1].state = EXPIRED
        /\ attempts # <<>>

\* C19: in every committed state an APPROVED task has an attempt with a
\* true verdict.
C19_ApprovedHasApprovingAttempt ==
    \A id \in DOMAIN tasks :
        tasks[id].state = APPROVED =>
            \E i \in DOMAIN attempts :
                attempts[i].task_id = id /\ attempts[i].verdict

\* One task is APPROVED; the other, with a failed attempt only, is EXPIRED.
C19_Witness ==
    \E id, other \in DOMAIN tasks :
        /\ tasks[id].state = APPROVED
        /\ tasks[other].state = EXPIRED
        /\ \E i \in DOMAIN attempts :
              attempts[i].task_id = other /\ ~attempts[i].verdict

\* C20: in every committed state the task_id of every attempt is the id of
\* a task.
C20_AttemptsReferToTasks ==
    \A i \in DOMAIN attempts : attempts[i].task_id \in DOMAIN tasks

\* An attempt is stored for a task, and a verify_task call for an id that no
\* task has was answered with not found.
C20_Witness ==
    /\ attempts # <<>>
    /\ \E p \in Procs :
          /\ pc[p] = "done" /\ loc[p].op = "verify_task"
          /\ resp[p].status = NotFound
          /\ loc[p].task_id \notin DOMAIN tasks
====
